---- MODULE Spec2Model ----
(***************************************************************************)
(* The Pomodoro timer of src/main.py as a state machine.                   *)
(*                                                                         *)
(* One process runs main(): a startup self-check, the load of the          *)
(* statistics file, then the loop work interval -> break prompt -> break   *)
(* interval -> next-work prompt.  A state of the model is a point where    *)
(* the program blocks: the one-second sleep of a countdown tick, the pause *)
(* prompt, the two prompts of the main loop, or the end of the process.    *)
(* An action is everything the code does between two such points.          *)
(*                                                                         *)
(* The environment supplies: the content of the statistics file at start,  *)
(* the calendar date, the user's interrupts and answers, and the outcome   *)
(* of every call that leaves the program (audio playback, notification     *)
(* command, file write).  Interrupts arrive where the program blocks; a    *)
(* run of the main loop stays on one calendar day.                         *)
(*                                                                         *)
(* Specifications:                                                         *)
(*   Spec       the program, from its start to the end of the process;     *)
(*   SpecFair   the program with a user who answers every pause prompt,    *)
(*              and with the progress of the ticks (liveness);             *)
(*   SpecStats  StatsManager.update called on its own, on any dates;       *)
(*   SpecPure   minutes_to_seconds, format_timer and calculate_stats       *)
(*              called once with any argument;                             *)
(*   SpecTwo    two processes of the tool on one statistics file.          *)
(***************************************************************************)
EXTENDS Integers, Sequences, FiniteSets, TLC

(***************************************************************************)
(* Program constants (src/main.py:19-22).                                  *)
(***************************************************************************)
WORK_MINUTES == 25
SHORT_BREAK_MINUTES == 5
LONG_BREAK_MINUTES == 15
SESSIONS_BEFORE_LONG_BREAK == 4

(***************************************************************************)
(* Bounds of the model.                                                    *)
(***************************************************************************)
\* Work sessions the main loop may start (the loop itself is endless).
MaxSessions == 4
\* Calendar days the clock may show in SpecStats.
MaxDate == 3
\* Calls of StatsManager.update in one behaviour of SpecStats.
MaxCalls == 4
\* Minutes handed to minutes_to_seconds in SpecPure: -MaxMinutes..MaxMinutes,
\* each divided by 1..MaxDen.
MaxMinutes == 30
\* Updates one process makes in a behaviour of SpecTwo.
MaxSaves == 2
\* Denominators of the fractional arguments in SpecPure.
MaxDen == 8
\* Seconds handed to format_timer in SpecPure: -MaxSeconds..MaxSeconds, each
\* divided by 1..MaxDen (6000 seconds are 100 minutes).
MaxSeconds == 6100

VARIABLES
    pc,             \* where the process is blocked, or how it ended
    exit_cause,     \* "" while running, else what ended the process
    exit_in,        \* "" while running, else the function it ended in
    session_count,  \* main: session_count
    b_min,          \* main: b_min
    b_lbl,          \* main: b_lbl
    total_sec,      \* countdown: total_sec (remaining seconds)
    paused_at,      \* total_sec at the moment of the last interrupt
    audio,          \* the looping stream of sounddevice: "playing" / "stopped"
    data,           \* StatsManager.data
    file,           \* the statistics file on disk
    today,          \* the day datetime.now() reports (a day ordinal)
    result,         \* what the last countdown returned: "none" while one runs
    notify_outcome, \* how the last notification dispatch ended
    iv,             \* data, file and write count when the current interval began
    acct,           \* bookkeeping of the run (loads, updates, completions)
    days,           \* bookkeeping of the dates the updates carried
    ticks,          \* passes of the countdown loop that reached the decrement
    report,         \* the progress report the last step printed, if any
    call,           \* the last call of a pure function, with what it returned
    procs           \* the processes that share the statistics file

vars == <<pc, exit_cause, exit_in, session_count, b_min, b_lbl, total_sec, paused_at,
          audio, data, file, today, result, notify_outcome, iv, acct, days,
          ticks, report, call, procs>>

Max(a, b) == IF a >= b THEN a ELSE b

(***************************************************************************)
(* Pure functions.                                                         *)
(***************************************************************************)

\* int(max(0, minutes * 60)) for minutes = num / den (den > 0): int()
\* truncates toward zero, and the argument is never negative.
minutes_to_seconds(num, den) == Max(0, num * 60) \div den

\* int(x) for x = num / den (den > 0): the fraction is dropped, toward zero.
int(num, den) ==
    IF num >= 0 THEN num \div den ELSE -((-num) \div den)

Digits == <<"0", "1", "2", "3", "4", "5", "6", "7", "8", "9">>

\* The decimal digits of n >= 0, as a sequence of characters.
RECURSIVE decimal(_)
decimal(n) ==
    IF n < 10 THEN <<Digits[n + 1]>>
              ELSE Append(decimal(n \div 10), Digits[(n % 10) + 1])

\* The format specification 02d: a minimum width of 2, padded with "0".
format_02d(n) ==
    LET d == decimal(n)
    IN  IF Len(d) < 2 THEN <<"0">> \o d ELSE d

\* format_timer(seconds) for seconds = num / den.
format_timer(num, den) ==
    LET s == Max(0, int(num, den))
    IN  format_02d(s \div 60) \o <<":">> \o format_02d(s % 60)

get_empty_stats ==
    [total_sessions |-> 0,
     total_focus_minutes |-> 0,
     total_break_minutes |-> 0,
     days_active |-> 0,
     last_run |-> ""]

StatsKeys == DOMAIN get_empty_stats

\* The keys calculate_stats reads with new_data[...]: a missing one raises
\* KeyError before the function returns.
KeysRead(d, is_work, date_str) ==
    (IF is_work THEN {"total_sessions", "total_focus_minutes"}
                ELSE {"total_break_minutes"})
    \cup {"last_run"}
    \cup (IF "last_run" \in DOMAIN d
          THEN (IF d.last_run # date_str THEN {"days_active"} ELSE {})
          ELSE {})

calculate_stats_raises(d, is_work, date_str) ==
    ~(KeysRead(d, is_work, date_str) \subseteq DOMAIN d)

\* A calculate_stats that forgets to remember the date of the run.
calculate_stats_NoLastRun(d, minutes, is_work, date_str) ==
    LET new_data ==
            IF is_work
            THEN [d EXCEPT !.total_sessions = @ + 1,
                           !.total_focus_minutes = @ + minutes]
            ELSE [d EXCEPT !.total_break_minutes = @ + minutes]
    IN  IF new_data.last_run # date_str
        THEN [new_data EXCEPT !.days_active = @ + 1]
        ELSE new_data

\* A calculate_stats that counts every interval as a session.
calculate_stats_BreakCounts(d, minutes, is_work, date_str) ==
    LET new_data ==
            IF is_work
            THEN [d EXCEPT !.total_sessions = @ + 1,
                           !.total_focus_minutes = @ + minutes]
            ELSE [d EXCEPT !.total_sessions = @ + 1,
                           !.total_break_minutes = @ + minutes]
    IN  IF new_data.last_run # date_str
        THEN [new_data EXCEPT !.days_active = @ + 1, !.last_run = date_str]
        ELSE new_data

calculate_stats(d, minutes, is_work, date_str) ==
    LET new_data ==
            IF is_work
            THEN [d EXCEPT !.total_sessions = @ + 1,
                           !.total_focus_minutes = @ + minutes]
            ELSE [d EXCEPT !.total_break_minutes = @ + minutes]
    IN  IF new_data.last_run # date_str
        THEN [new_data EXCEPT !.days_active = @ + 1, !.last_run = date_str]
        ELSE new_data

\* dict.get(key, default).
dict_get(d, key, default) == IF key \in DOMAIN d THEN d[key] ELSE default

\* format_report: the numbers the report shows, line by line.
format_report(d, session_today) ==
    LET focus_mins == dict_get(d, "total_focus_minutes", 0)
    IN  [streak |-> session_today,
         hours |-> focus_mins \div 60,
         minutes |-> focus_mins % 60,
         total_sessions |-> dict_get(d, "total_sessions", 0),
         days_active |-> dict_get(d, "days_active", 0)]

\* No report was printed.
NoReport == [streak |-> -1]

get_session_config(count, long_freq) ==
    IF count > 0 /\ count % long_freq = 0
    THEN <<LONG_BREAK_MINUTES, "Long Break">>
    ELSE <<SHORT_BREAK_MINUTES, "Short Break">>

\* Strings the user types are sequences of one-character strings.
Whitespace == {" ", "\t"}

RECURSIVE lstrip(_)
lstrip(s) ==
    IF s # <<>> /\ Head(s) \in Whitespace THEN lstrip(Tail(s)) ELSE s

RECURSIVE rstrip(_)
rstrip(s) ==
    IF s # <<>> /\ s[Len(s)] \in Whitespace
    THEN rstrip(SubSeq(s, 1, Len(s) - 1))
    ELSE s

strip(s) == rstrip(lstrip(s))

lower_char(c) ==
    CASE c = "S" -> "s"
      [] c = "Q" -> "q"
      [] c = "R" -> "r"
      [] c = "X" -> "x"
      [] OTHER -> c

lower(s) == [i \in 1..Len(s) |-> lower_char(s[i])]

parse_pause_input(user_str) ==
    LET cleaned == lower(strip(user_str))
    IN  CASE cleaned = <<"s">> -> "skip"
          [] cleaned = <<"q">> -> "quit"
          [] cleaned = <<"r">> -> "resume"
          [] OTHER -> "resume"

(***************************************************************************)
(* The statistics file and the calendar.                                   *)
(***************************************************************************)

\* strftime("%Y-%m-%d") of the day with ordinal d.
DateStr ==
    <<"2025-01-01", "2025-01-02", "2025-01-03", "2025-01-04", "2025-01-05",
      "2025-01-06">>

strftime(d) == DateStr[d]

\* The JSON object {} (a dict without keys).
EmptyObject == [k \in {} |-> 0]

\* A record an earlier run left in the file.
StoredRecord ==
    [total_sessions |-> 7,
     total_focus_minutes |-> 175,
     total_break_minutes |-> 45,
     days_active |-> 3,
     last_run |-> strftime(1)]

\* A JSON object that lacks keys of the schema.
PartialRecord == [total_sessions |-> 7, total_focus_minutes |-> 175]

JsonFile(d) == [kind |-> "json", value |-> d]

\* A file that holds no JSON document: kind is "absent" (no file),
\* "unreadable" (open fails with an OSError), "garbage" (text json cannot
\* parse) or "bad_encoding" (bytes the text decoder rejects).
OtherFile(kind) == [kind |-> kind, value |-> EmptyObject]

StartFiles ==
    {OtherFile("absent"), OtherFile("unreadable"), OtherFile("garbage"),
     OtherFile("bad_encoding"),
     JsonFile(EmptyObject), JsonFile(PartialRecord), JsonFile(StoredRecord)}

\* Whether d is a record of the five-key schema.
WellFormed(d) == DOMAIN d = StatsKeys

\* StatsManager.load: the value returned, or the exception that leaves it.
\* JSONDecodeError and IOError (OSError) are caught; UnicodeDecodeError is
\* a ValueError that is neither.
load(f) ==
    CASE f.kind = "absent" -> [raised |-> "", value |-> get_empty_stats]
      [] f.kind = "unreadable" -> [raised |-> "", value |-> get_empty_stats]
      [] f.kind = "garbage" -> [raised |-> "", value |-> get_empty_stats]
      [] f.kind = "bad_encoding" ->
            [raised |-> "UnicodeDecodeError", value |-> get_empty_stats]
      [] OTHER -> [raised |-> "", value |-> f.value]

\* How open(path, "w") / json.dump can end.
SaveOutcomes == {"ok", "open_failed", "write_failed"}

\* A save that writes nothing.
save_Nothing(d, f, outcome) ==
    [raised |-> IF outcome = "ok" THEN "" ELSE "OSError", file |-> f]

\* StatsManager.save: the file afterwards, and the exception if any.
\* open(..., "w") truncates the file before json.dump writes it.
save(d, f, outcome) ==
    CASE outcome = "ok" -> [raised |-> "", file |-> JsonFile(d)]
      [] outcome = "open_failed" -> [raised |-> "OSError", file |-> f]
      [] OTHER -> [raised |-> "OSError", file |-> OtherFile("garbage")]

\* StatsManager.update on data d and file f, on the day `day`: the data and
\* the file afterwards, whether self.data was assigned, and the exception
\* that leaves the call, if any.
StatsManager_update(d, f, minutes, is_work, day, outcome) ==
    LET date_str == strftime(day)
    IN  IF calculate_stats_raises(d, is_work, date_str)
        THEN [raised |-> "KeyError", data |-> d, file |-> f,
              assigned |-> FALSE]
        ELSE LET nd == calculate_stats(d, minutes, is_work, date_str)
                 w == save(nd, f, outcome)
             IN  [raised |-> w.raised, data |-> nd, file |-> w.file,
                  assigned |-> TRUE]

\* The call that did not happen.
NoUpdate(d, f) == [raised |-> "", data |-> d, file |-> f, assigned |-> FALSE]

\* The bookkeeping of the dates after an update that asked for day `day`
\* and took the record from d to nd.
DaysAfter(dy, d, nd, day) ==
    LET incremented ==
            /\ "days_active" \in DOMAIN d
            /\ nd.days_active # d.days_active
    IN  [inc_dates |-> IF incremented THEN dy.inc_dates \cup {day}
                                      ELSE dy.inc_dates,
         dup_inc |-> dy.dup_inc \/ (incremented /\ day \in dy.inc_dates),
         nondecr |-> dy.nondecr /\ (dy.prev = 0 \/ day >= dy.prev),
         same_again |-> dy.same_again \/ day \in dy.seen,
         seen |-> dy.seen \cup {day},
         prev |-> day]

NoDays ==
    [inc_dates |-> {}, dup_inc |-> FALSE, nondecr |-> TRUE,
     same_again |-> FALSE, seen |-> {}, prev |-> 0]

(***************************************************************************)
(* Calls that leave the program.                                           *)
(***************************************************************************)

\* sd.play(noise, SAMPLE_RATE, loop=True): the stream starts, or PortAudio
\* has no usable output device and sounddevice raises PortAudioError.
PlayOutcomes == {"ok", "PortAudioError"}

\* subprocess.run(["notify-send", ...], check=False): the command runs and
\* exits 0, runs and exits non-zero, is not found (FileNotFoundError), fails
\* inside subprocess (a SubprocessError), or is found but cannot be executed
\* (PermissionError, an OSError).
NotifyOutcomes ==
    {"ok", "nonzero_exit", "FileNotFoundError", "SubprocessError",
     "PermissionError"}

NotifyFailures == NotifyOutcomes \ {"ok"}

\* notify: "" when it returns, else the exception that leaves it.  The
\* handler names SubprocessError and FileNotFoundError; check=False makes a
\* non-zero exit status no exception at all.
notify(outcome) ==
    CASE outcome \in {"ok", "nonzero_exit"} -> ""
      [] outcome \in {"SubprocessError", "FileNotFoundError"} -> ""
      [] OTHER -> outcome

\* The outcomes of the playback countdown asks for: none when play_sound is
\* false, since sd.play is not called then.
PlayedBy(sound) == IF sound THEN PlayOutcomes ELSE {"ok"}

\* What the user may type at the pause prompt.
PauseInputs ==
    {<<>>, <<"s">>, <<"S">>, <<" ", "s", " ">>, <<"q">>, <<" ", "Q">>,
     <<"r">>, <<" ", "R", " ">>, <<"x">>, <<"s", "q">>}

(***************************************************************************)
(* The process.                                                            *)
(***************************************************************************)

Running == {"work_running", "break_running"}
Paused == {"work_paused", "break_paused"}
Prompts == {"break_prompt", "next_prompt"}
Blocked == Running \cup Paused \cup Prompts
Ended == {"exited", "refused", "crashed"}

\* The exit status of a process that ended as p: sys.exit() gives 0,
\* sys.exit(1) gives 1, and an exception nobody catches makes the
\* interpreter exit with 1.
ExitStatus(p) ==
    CASE p = "exited" -> 0
      [] p = "refused" -> 1
      [] OTHER -> 1

\* The interval the countdown on the stack belongs to.
IsWork == pc \in {"work_running", "work_paused"}

\* main passes play_sound = True for a work interval only.
play_sound == IsWork

\* The days on which a run of the main loop takes place: the day after the
\* stored record's last run.  The run does not cross midnight.
RunDays == {2}

\* Whether the file f holds a record of the five-key schema.
ValidFile(f) == f.kind = "json" /\ WellFormed(f.value)

\* No pure function was called on its own.
NoCall == [fn |-> "none"]

\* No other process uses the statistics file.
NoProcs == <<>>

NoAccount(f) ==
    [loaded |-> FALSE, start |-> get_empty_stats, start_valid |-> ValidFile(f),
     updates |-> 0, writes |-> 0,
     completed_work |-> 0, completed_break_minutes |-> 0,
     started_work |-> 0]

Init ==
    /\ pc = "start"
    /\ exit_cause = ""
    /\ exit_in = ""
    /\ session_count = 0
    /\ b_min = 0
    /\ b_lbl = ""
    /\ total_sec = 0
    /\ paused_at = -1
    /\ audio = "stopped"
    /\ data = get_empty_stats
    /\ file \in StartFiles
    /\ today \in RunDays
    /\ result = "none"
    /\ notify_outcome = "none"
    /\ iv = [data |-> get_empty_stats, file |-> file, writes |-> 0]
    /\ acct = NoAccount(file)
    /\ days = NoDays
    /\ ticks = 0
    /\ report = NoReport
    /\ call = NoCall
    /\ procs = NoProcs

\* A step of the program that prints no progress report.
NoReportPrinted ==
    /\ report' = NoReport
    /\ UNCHANGED <<call, procs>>

\* The process ends: by sys.exit (p = "exited": status 0; p = "refused":
\* status 1) or by an exception nobody catches (p = "crashed").  The frames
\* of main and countdown and the audio stream end with it.
Ends(p, cause, where) ==
    /\ pc' = p
    /\ exit_cause' = cause
    /\ exit_in' = where
    /\ total_sec' = 0
    /\ paused_at' = -1
    /\ audio' = "stopped"
    /\ ticks' = 0

\* countdown, from its call to the first sleep: total_sec is set, the noise
\* is generated and played when play_sound is true.  sd.play is called
\* outside the try block.
BeginCountdown(minutes, sound, running_pc, played) ==
    /\ result' = "none"
    /\ notify_outcome' = "none"
    /\ iv' = [data |-> data', file |-> file', writes |-> acct'.writes]
    /\ IF sound /\ played # "ok"
       THEN Ends("crashed", played, "countdown")
       ELSE /\ pc' = running_pc
            /\ UNCHANGED <<exit_cause, exit_in>>
            /\ total_sec' = minutes_to_seconds(minutes, 1)
            /\ paused_at' = -1
            /\ audio' = IF sound THEN "playing" ELSE audio
            /\ ticks' = 0

\* main, lines 378-392: the doctests, the load, the first report and the
\* start of the first work interval.
Main_Start ==
    /\ pc = "start"
    /\ \E failed \in BOOLEAN, played \in PlayOutcomes :
         IF failed
         THEN /\ Ends("refused", "doctest_failed", "main")
              /\ NoReportPrinted
              /\ UNCHANGED <<session_count, b_min, b_lbl, data, file, today,
                             result, notify_outcome, iv, acct, days>>
         ELSE LET l == load(file)
              IN  IF l.raised # ""
                  THEN /\ Ends("crashed", l.raised, "main")
                       /\ NoReportPrinted
                       /\ UNCHANGED <<session_count, b_min, b_lbl, data, file,
                                      today, result, notify_outcome, iv, acct,
                                      days>>
                  ELSE /\ data' = l.value
                       /\ acct' = [acct EXCEPT !.loaded = TRUE,
                                               !.start = l.value,
                                               !.started_work = 1]
                       /\ session_count' = 1
                       /\ report' = format_report(data', session_count' - 1)
                       /\ UNCHANGED <<call, procs>>
                       /\ UNCHANGED <<file, today, b_min, b_lbl, days>>
                       /\ BeginCountdown(WORK_MINUTES, TRUE, "work_running",
                                         played)

\* A main loop that records every interval, skipped ones too.
CountsTowardStats_Always(r) == TRUE

\* main, lines 391-395 and 400-401: the interval is recorded when countdown
\* returned "completed".
CountsTowardStats(r) == r = "completed"

\* main, line 397: the break after the work interval of session `count`.
BreakAfter(count) == get_session_config(count, SESSIONS_BEFORE_LONG_BREAK)

\* A sounddevice whose stop() does nothing.
sd_stop_Ignored(a) == a

\* sd.stop(): the stream a of the module is stopped, whatever it played.
sd_stop(a) == "stopped"

\* countdown returns r to main, and main runs on to its next prompt: the
\* update of the statistics, then (after a work interval) the choice of the
\* break.  The frame of countdown is gone: total_sec keeps its last value
\* -1 after a completion and is cleared after a skip.
Return(r, w) ==
    LET is_work == IsWork
        minutes == IF is_work THEN WORK_MINUTES ELSE b_min
        u == IF CountsTowardStats(r)
             THEN StatsManager_update(data, file, minutes, is_work, today, w)
             ELSE NoUpdate(data, file)
        cfg == BreakAfter(session_count)
    IN  /\ result' = r
        /\ data' = u.data
        /\ file' = u.file
        /\ acct' = [acct EXCEPT
                      !.completed_work =
                          @ + (IF r = "completed" /\ is_work THEN 1 ELSE 0),
                      !.completed_break_minutes =
                          @ + (IF r = "completed" /\ ~is_work
                               THEN minutes ELSE 0),
                      !.updates = @ + (IF u.assigned THEN 1 ELSE 0),
                      !.writes = @ + (IF u.file # file THEN 1 ELSE 0)]
        /\ days' = IF u.assigned THEN DaysAfter(days, data, u.data, today)
                                 ELSE days
        /\ IF u.raised # ""
           THEN /\ Ends("crashed", u.raised, "main")
                /\ UNCHANGED <<b_min, b_lbl>>
           ELSE /\ pc' = IF is_work THEN "break_prompt" ELSE "next_prompt"
                /\ UNCHANGED <<exit_cause, exit_in>>
                /\ total_sec' = IF r = "completed" THEN total_sec - 1 ELSE 0
                /\ ticks' = IF r = "completed" THEN ticks + 1 ELSE 0
                /\ paused_at' = -1
                /\ audio' = sd_stop(audio)
                /\ b_min' = IF is_work THEN cfg[1] ELSE b_min
                /\ b_lbl' = IF is_work THEN cfg[2] ELSE b_lbl
        /\ UNCHANGED <<session_count, today, iv>>

\* One pass of the while loop that is followed by another: the line is
\* written, the second is slept, total_sec is decremented.
Tick ==
    /\ pc \in Running
    /\ total_sec > 0
    /\ total_sec' = total_sec - 1
    /\ ticks' = ticks + 1
    /\ NoReportPrinted
    /\ UNCHANGED <<pc, exit_cause, exit_in, session_count, b_min, b_lbl,
                   paused_at,
                   audio, data, file, today, result, notify_outcome, iv,
                   acct, days>>

\* The last pass: total_sec goes from 0 to -1, the loop ends, the audio is
\* stopped, the notification is sent and countdown returns "completed".
Complete ==
    /\ pc \in Running
    /\ total_sec = 0
    /\ NoReportPrinted
    /\ \E o \in NotifyOutcomes, w \in SaveOutcomes :
         /\ notify_outcome' = o
         /\ IF notify(o) # ""
            THEN /\ Ends("crashed", notify(o), "countdown")
                 /\ UNCHANGED <<session_count, b_min, b_lbl, data, file,
                                today, result, iv, acct, days>>
            ELSE Return("completed", w)

\* A pass that decrements before it sleeps.
AfterInterrupt_Decremented(t) == t - 1

\* total_sec after a pass that was interrupted in time.sleep(1): the
\* decrement on the next line was not reached.
AfterInterrupt(t) == t

\* KeyboardInterrupt during a pass of the loop: the handler stops the audio
\* and asks.  The pass did not reach its decrement.
Interrupt ==
    /\ pc \in Running
    /\ pc' = IF IsWork THEN "work_paused" ELSE "break_paused"
    /\ audio' = sd_stop(audio)
    /\ total_sec' = AfterInterrupt(total_sec)
    /\ paused_at' = total_sec'
    /\ NoReportPrinted
    /\ UNCHANGED <<exit_cause, exit_in, session_count, b_min, b_lbl,
                   data, file, today, result, notify_outcome, iv,
                   acct, days, ticks>>

\* A program without the handler around main().
OnKeyboardInterrupt_Uncaught == "crashed"

\* What becomes of a KeyboardInterrupt that leaves main(): the handler at
\* lines 410-411 calls sys.exit(), the process exits with status 0.
OnKeyboardInterrupt == "exited"

\* KeyboardInterrupt outside the try block of countdown (before the first
\* countdown, at the pause prompt, at a prompt of main): it reaches the
\* handler around main(), which calls sys.exit().
InterruptOutside ==
    /\ pc \in {"start"} \cup Paused \cup Prompts
    /\ Ends(OnKeyboardInterrupt, "KeyboardInterrupt",
            IF pc \in Paused THEN "countdown" ELSE "main")
    /\ NoReportPrinted
    /\ UNCHANGED <<session_count, b_min, b_lbl, data, file, today, result,
                   notify_outcome, iv, acct, days>>

\* The user answers the pause prompt with the line s.
PauseAnswer(s) ==
    /\ pc \in Paused
    /\ NoReportPrinted
    /\ LET action == parse_pause_input(s)
       IN  CASE action = "skip" ->
                  /\ Return("skipped", "ok")
                  /\ UNCHANGED notify_outcome
             [] action = "quit" ->
                  /\ Ends("exited", "quit", "countdown")
                  /\ UNCHANGED <<session_count, b_min, b_lbl, data, file,
                                 today, result, notify_outcome, iv, acct,
                                 days>>
             [] OTHER ->
                  \E played \in PlayedBy(play_sound) :
                    /\ IF play_sound /\ played # "ok"
                       THEN Ends("crashed", played, "countdown")
                       ELSE /\ pc' = IF IsWork THEN "work_running"
                                               ELSE "break_running"
                            /\ audio' = IF play_sound THEN "playing"
                                                      ELSE audio
                            /\ paused_at' = -1
                            /\ UNCHANGED <<exit_cause, exit_in, total_sec,
                                           ticks>>
                    /\ UNCHANGED <<session_count, b_min, b_lbl, data, file,
                                   today, result, notify_outcome, iv, acct,
                                   days>>

Answer == \E s \in PauseInputs : PauseAnswer(s)

\* Enter at "Next: ... Press Enter to start...": the break countdown begins.
StartBreak ==
    /\ pc = "break_prompt"
    /\ NoReportPrinted
    /\ UNCHANGED <<session_count, b_min, b_lbl, data, file, today, acct,
                   days>>
    /\ BeginCountdown(b_min, FALSE, "break_running", "ok")

\* Enter at "Break over! ...": the loop starts over with the next session,
\* its report and its work countdown.
NextSession ==
    /\ pc = "next_prompt"
    /\ session_count < MaxSessions
    /\ session_count' = session_count + 1
    /\ acct' = [acct EXCEPT !.started_work = @ + 1]
    /\ report' = format_report(data, session_count' - 1)
    /\ UNCHANGED <<call, procs>>
    /\ UNCHANGED <<b_min, b_lbl, data, file, today, days>>
    /\ \E played \in PlayOutcomes :
         BeginCountdown(WORK_MINUTES, TRUE, "work_running", played)

Next ==
    \/ Main_Start
    \/ Tick
    \/ Complete
    \/ Interrupt
    \/ InterruptOutside
    \/ Answer
    \/ StartBreak
    \/ NextSession

Spec == Init /\ [][Next]_vars

\* The program with a user who answers every pause prompt with a line (no
\* interrupt arrives outside a tick), and with the progress the code makes
\* by itself: time.sleep(1) returns, so a pass of the loop that is not
\* interrupted ends; the prompt returns once the user has typed the line.
NextAnswered ==
    \/ Main_Start
    \/ Tick
    \/ Complete
    \/ Interrupt
    \/ Answer
    \/ StartBreak
    \/ NextSession

SpecFair ==
    /\ Init
    /\ [][NextAnswered]_vars
    /\ WF_vars(Tick)
    /\ WF_vars(Complete)
    /\ WF_vars(Answer)

(***************************************************************************)
(* StatsManager used on its own: a sequence of update calls, the clock     *)
(* showing any day at each call.                                           *)
(***************************************************************************)

InitStats ==
    /\ pc = "lib"
    /\ exit_cause = ""
    /\ exit_in = ""
    /\ session_count = 0
    /\ b_min = 0
    /\ b_lbl = ""
    /\ total_sec = 0
    /\ paused_at = -1
    /\ audio = "stopped"
    /\ file \in {OtherFile("absent"), JsonFile(StoredRecord)}
    /\ data = load(file).value
    /\ today \in 1..MaxDate
    /\ result = "none"
    /\ notify_outcome = "none"
    /\ iv = [data |-> data, file |-> file, writes |-> 0]
    /\ acct = [NoAccount(file) EXCEPT !.loaded = TRUE, !.start = data]
    /\ days = NoDays
    /\ ticks = 0
    /\ report = NoReport
    /\ call = NoCall
    /\ procs = NoProcs

\* The minutes main passes to update: WORK_MINUTES for a work interval, the
\* length of the break for a break.
UpdateMinutes(is_work) ==
    IF is_work THEN {WORK_MINUTES}
               ELSE {SHORT_BREAK_MINUTES, LONG_BREAK_MINUTES}

\* One call stats.update(minutes, is_work) while the clock shows day d.
UpdateCall ==
    /\ pc = "lib"
    /\ acct.updates < MaxCalls
    /\ NoReportPrinted
    /\ \E is_work \in BOOLEAN, d \in 1..MaxDate, w \in SaveOutcomes :
         \E minutes \in UpdateMinutes(is_work) :
           LET u == StatsManager_update(data, file, minutes, is_work, d, w)
           IN  /\ today' = d
               /\ data' = u.data
               /\ file' = u.file
               /\ acct' = [acct EXCEPT
                             !.updates = @ + (IF u.assigned THEN 1 ELSE 0),
                             !.writes = @ + (IF u.file # file THEN 1 ELSE 0)]
               /\ days' = IF u.assigned
                          THEN DaysAfter(days, data, u.data, d)
                          ELSE days
               /\ IF u.raised # ""
                  THEN Ends("crashed", u.raised, "update")
                  ELSE UNCHANGED <<pc, exit_cause, exit_in, total_sec,
                                   paused_at, audio, ticks>>
               /\ UNCHANGED <<session_count, b_min, b_lbl, result,
                              notify_outcome, iv>>

NextStats == UpdateCall

SpecStats == InitStats /\ [][NextStats]_vars

(***************************************************************************)
(* The pure functions called on their own, once, with any argument.        *)
(***************************************************************************)

\* The variables of the program proper: a call of a pure function leaves
\* them alone.
program ==
    <<pc, exit_cause, exit_in, session_count, b_min, b_lbl, total_sec,
      paused_at, audio, data, file, today, result, notify_outcome, iv, acct,
      days, ticks, report, procs>>

InitPure ==
    /\ pc = "lib"
    /\ exit_cause = ""
    /\ exit_in = ""
    /\ session_count = 0
    /\ b_min = 0
    /\ b_lbl = ""
    /\ total_sec = 0
    /\ paused_at = -1
    /\ audio = "stopped"
    /\ file = OtherFile("absent")
    /\ data = get_empty_stats
    /\ today = 1
    /\ result = "none"
    /\ notify_outcome = "none"
    /\ iv = [data |-> data, file |-> file, writes |-> 0]
    /\ acct = NoAccount(file)
    /\ days = NoDays
    /\ ticks = 0
    /\ report = NoReport
    /\ call = NoCall
    /\ procs = NoProcs

\* minutes_to_seconds(num / den).
Call_minutes_to_seconds ==
    /\ call = NoCall
    /\ \E num \in -MaxMinutes..MaxMinutes, den \in 1..MaxDen :
         call' = [fn |-> "minutes_to_seconds", num |-> num, den |-> den,
                  ret |-> minutes_to_seconds(num, den)]
    /\ UNCHANGED program

\* format_timer(num / den).
Call_format_timer ==
    /\ call = NoCall
    /\ \E num \in -MaxSeconds..MaxSeconds, den \in 1..MaxDen :
         call' = [fn |-> "format_timer", num |-> num, den |-> den,
                  ret |-> format_timer(num, den)]
    /\ UNCHANGED program

\* A record of the schema that carries one more key.
ExtraRecord ==
    [total_sessions |-> 7,
     total_focus_minutes |-> 175,
     total_break_minutes |-> 45,
     days_active |-> 3,
     last_run |-> strftime(1),
     note |-> "kept"]

\* The records handed to calculate_stats: they hold the keys it reads, with
\* integer counters.
CalcRecords == {get_empty_stats, StoredRecord, ExtraRecord}

CalcMinutes == {0, SHORT_BREAK_MINUTES, LONG_BREAK_MINUTES, WORK_MINUTES}

\* A calculate_stats that works on the dict it was given.
copy_target_Alias(ref) == ref

\* data.copy() at line 115: new_data names a new dict object, whatever
\* object ref the argument names.
copy_target(ref) == "new_data"

\* calculate_stats on the heap h of dict objects, its argument data being
\* the object ref: the heap afterwards and the object returned.  The item
\* assignments of lines 117-124 go to the object new_data names.
calculate_stats_call(h, ref, minutes, is_work, date_str) ==
    LET new == copy_target(ref)
        copied == [o \in DOMAIN h \cup {new} |->
                      IF o = new THEN h[ref] ELSE h[o]]
    IN  [heap |-> [copied EXCEPT
                     ![new] = calculate_stats(@, minutes, is_work, date_str)],
         ret |-> new]

\* calculate_stats(d, minutes, is_work, date) with d held by the caller as
\* the object "data".
Call_calculate_stats ==
    /\ call = NoCall
    /\ \E d \in CalcRecords, minutes \in CalcMinutes, is_work \in BOOLEAN,
          day \in 1..MaxDate :
         LET h == [data |-> d]
             r == calculate_stats_call(h, "data", minutes, is_work,
                                       strftime(day))
         IN  call' = [fn |-> "calculate_stats", before |-> h,
                      minutes |-> minutes, is_work |-> is_work,
                      date_str |-> strftime(day),
                      heap |-> r.heap, ret |-> r.ret]
    /\ UNCHANGED program

NextPure ==
    \/ Call_minutes_to_seconds
    \/ Call_format_timer
    \/ Call_calculate_stats

SpecPure == InitPure /\ [][NextPure]_vars

(***************************************************************************)
(* Two processes of the tool on one statistics file.  Each builds its      *)
(* StatsManager once (the load), then completes intervals; every completed *)
(* interval is one call of update.  Nothing locks the file.                *)
(***************************************************************************)

Procs == {1, 2}

InitTwo ==
    /\ pc = "lib"
    /\ exit_cause = ""
    /\ exit_in = ""
    /\ session_count = 0
    /\ b_min = 0
    /\ b_lbl = ""
    /\ total_sec = 0
    /\ paused_at = -1
    /\ audio = "stopped"
    /\ file \in {OtherFile("absent"), JsonFile(StoredRecord)}
    /\ data = get_empty_stats
    /\ today \in RunDays
    /\ result = "none"
    /\ notify_outcome = "none"
    /\ iv = [data |-> data, file |-> file, writes |-> 0]
    /\ acct = [NoAccount(file) EXCEPT !.start = load(file).value]
    /\ days = NoDays
    /\ ticks = 0
    /\ report = NoReport
    /\ call = NoCall
    /\ procs = [state |-> [p \in Procs |-> "new"],
                mem |-> [p \in Procs |-> get_empty_stats],
                loaded |-> [p \in Procs |-> get_empty_stats],
                work |-> [p \in Procs |-> 0],
                updates |-> [p \in Procs |-> 0],
                last |-> 0]

\* The variables of the single process of Spec, idle here.
single ==
    <<pc, exit_cause, exit_in, session_count, b_min, b_lbl, total_sec,
      paused_at, audio, data, today, result, notify_outcome, iv, acct,
      days, ticks, report, call>>

\* Process p builds its StatsManager: self.data is what load returns.
Proc_Load(p) ==
    /\ procs.state[p] = "new"
    /\ LET l == load(file)
       IN  procs' = [procs EXCEPT !.state[p] = "running",
                                  !.mem[p] = l.value,
                                  !.loaded[p] = l.value]
    /\ UNCHANGED file
    /\ UNCHANGED single

\* An update that reads the file again before it adds the interval.
UpdateBase_Reload(d, f) == load(f).value

\* The record update starts from (line 289): self.data, the copy in the
\* memory of the process, whatever the file f holds by now.
UpdateBase(d, f) == d

\* Process p completed an interval: stats.update(minutes, is_work).
Proc_Update(p) ==
    /\ procs.state[p] = "running"
    /\ procs.updates[p] < MaxSaves
    /\ \E is_work \in BOOLEAN, w \in SaveOutcomes :
         \E minutes \in UpdateMinutes(is_work) :
           LET u == StatsManager_update(UpdateBase(procs.mem[p], file), file,
                                        minutes, is_work, today, w)
           IN  /\ file' = u.file
               /\ procs' =
                     [procs EXCEPT
                        !.mem[p] = u.data,
                        !.state[p] = IF u.raised # "" THEN "crashed" ELSE @,
                        !.updates[p] = @ + 1,
                        !.work[p] =
                            @ + (IF is_work /\ u.raised = "" THEN 1 ELSE 0),
                        !.last = IF u.file # file THEN p ELSE @]
    /\ UNCHANGED single

NextTwo ==
    \/ \E p \in Procs : Proc_Load(p)
    \/ \E p \in Procs : Proc_Update(p)

SpecTwo == InitTwo /\ [][NextTwo]_vars

(***************************************************************************)
(* Properties.                                                             *)
(***************************************************************************)

\* C1: in a run that started from a record of the five-key schema, the
\* record accounts for exactly the intervals whose countdown returned
\* "completed": total_sessions is its start value plus the number of
\* completed work intervals, total_focus_minutes its start value plus 25
\* times that number, total_break_minutes its start value plus the minutes
\* of the completed breaks (so a break never changes total_sessions).
C1_StatsAccountForCompleted ==
    (acct.loaded /\ WellFormed(acct.start)) =>
        /\ data.total_sessions =
               acct.start.total_sessions + acct.completed_work
        /\ data.total_focus_minutes =
               acct.start.total_focus_minutes + 25 * acct.completed_work
        /\ data.total_break_minutes =
               acct.start.total_break_minutes + acct.completed_break_minutes

\* C1 witness: two work intervals and a short break were completed on top of
\* a stored record, and the last interval was skipped.
C1_Witness ==
    /\ acct.start = StoredRecord
    /\ acct.completed_work = 2
    /\ acct.completed_break_minutes = 5
    /\ result = "skipped"
    /\ pc = "next_prompt"
    /\ data.total_sessions = 9

\* The answers that mean skip: "s" once trimmed and lower-cased.
SkipAnswers == {s \in PauseInputs : lower(strip(s)) = <<"s">>}

\* The answers that mean neither skip nor quit.
ResumeAnswers ==
    {s \in PauseInputs : lower(strip(s)) \notin {<<"s">>, <<"q">>}}

\* A step that answers the pause prompt with skip returns "skipped" to main
\* and leaves the record, the file and the write count as the interval
\* found them.
SkipStepLeavesStats ==
    pc \in Paused =>
        \A s \in SkipAnswers :
            PauseAnswer(s) =>
                /\ result' = "skipped"
                /\ pc' \in Prompts
                /\ data' = iv.data
                /\ file' = iv.file
                /\ acct'.writes = iv.writes
                /\ acct'.updates = acct.updates

\* C2: a step in which the user answers the pause prompt with skip makes
\* countdown return "skipped" at once, and leaves the record in memory and
\* the statistics file as they were when the interval began, with no write.
C2_SkipLeavesStats == [][SkipStepLeavesStats]_vars

\* C2 witness: a break was skipped after a completed work interval, so the
\* record the skip left alone is not the one the run started with.
C2_Witness ==
    /\ result = "skipped"
    /\ pc = "next_prompt"
    /\ acct.completed_work = 1
    /\ data # acct.start
    /\ data = iv.data
    /\ file = JsonFile(data)

\* A step from PAUSED: an answer that is neither skip nor quit leads to
\* RUNNING with total_sec as it was at the interrupt, and a step that stays
\* PAUSED does not change total_sec.
ResumeStepKeepsRemaining ==
    pc \in Paused =>
        /\ \A s \in ResumeAnswers :
              PauseAnswer(s) =>
                  /\ pc' = (IF IsWork THEN "work_running"
                                      ELSE "break_running")
                  /\ total_sec' = paused_at
        /\ pc' \in Paused => total_sec' = total_sec

\* C3, as claimed: every answer that is neither skip nor quit takes the
\* paused countdown back to RUNNING with remaining as it was at the
\* interrupt, and remaining does not change while PAUSED.
C3_Claim == [][ResumeStepKeepsRemaining]_vars

\* C4, as claimed: a countdown ends by returning "completed" or "skipped", or
\* the process ends in it on the quit choice; and a process that ended on
\* quit updated nothing in the interval it quit.
C4_Claim ==
    /\ (pc \in Ended /\ exit_in = "countdown") => exit_cause = "quit"
    /\ pc \in Prompts => result \in {"completed", "skipped"}
    /\ exit_cause = "quit" =>
           /\ pc = "exited"
           /\ data = iv.data
           /\ file = iv.file

\* C5, as claimed: the break chosen after a work interval is the long one
\* exactly when the number of work intervals completed so far in the run is
\* a positive multiple of 4.
C5_Claim ==
    pc = "break_prompt" =>
        IF acct.completed_work > 0 /\ acct.completed_work % 4 = 0
        THEN b_min = 15 /\ b_lbl = "Long Break"
        ELSE b_min = 5 /\ b_lbl = "Short Break"

\* C6, as claimed: whatever the order of the dates, no two updates that
\* carry the same date both increment days_active.
C6_Claim == ~days.dup_inc

\* C6, amended: when the dates of the updates never go back, no two updates
\* that carry the same date both increment days_active.
C6_OncePerDateForward == days.nondecr => ~days.dup_inc

\* C6 witness: the dates never went back, two updates carried the same
\* date, and days_active was incremented for two different dates.
C6_Witness ==
    /\ days.nondecr
    /\ days.same_again
    /\ ~days.dup_inc
    /\ Cardinality(days.inc_dates) = 2
    /\ acct.updates >= 3
    /\ data.days_active = acct.start.days_active + 2

\* C7: from the first update on, whenever the program sleeps in a tick or
\* waits for input, every assignment of the record was followed by a write
\* and the file holds the record in memory.
C7_FileFollowsData ==
    (acct.updates > 0 /\ pc \in Blocked) =>
        /\ file = JsonFile(data)
        /\ acct.writes = acct.updates

\* C7 witness: the program sleeps in a break after two updates, and the file
\* holds the record, which is no longer the one the run started with.
C7_Witness ==
    /\ pc = "break_running"
    /\ acct.updates = 2
    /\ data # acct.start
    /\ file = JsonFile(data)

\* C8, as claimed: when the file at startup holds no record of the schema
\* (absent, unreadable, unparseable, or JSON of another shape), load yields
\* the default record and no error of the record ends the run.
C8_Claim ==
    ~acct.start_valid =>
        /\ acct.loaded => acct.start = get_empty_stats
        /\ exit_cause \notin {"UnicodeDecodeError", "KeyError"}

\* C9, as claimed: a playback that fails to start does not end the run.
C9_Claim == exit_cause # "PortAudioError"

\* C10, as claimed: however the notification dispatch fails, countdown
\* returns "completed" and the interval is recorded.
C10_Claim ==
    notify_outcome \in NotifyFailures =>
        /\ result = "completed"
        /\ exit_in # "countdown"
        /\ WellFormed(iv.data) => data # iv.data

\* A run the self-check refused: exit status non-zero, nothing loaded, no
\* interval started, the file as it was found.
RefusedBeforeLoad ==
    exit_cause = "doctest_failed" =>
        /\ pc \in Ended
        /\ ExitStatus(pc) # 0
        /\ ~acct.loaded
        /\ session_count = 0
        /\ acct.writes = 0
        /\ file = iv.file

\* A run that ended before the session loop began was refused by the
\* self-check or interrupted by the user.
LoopStartsUnlessRefused ==
    (pc \in Ended /\ session_count = 0) =>
        exit_cause \in {"doctest_failed", "KeyboardInterrupt"}

\* C11, as claimed: when a startup self-check fails the process exits with
\* a non-zero status before the file is loaded, before any interval and
\* without a write; when none fails the session loop starts.
C11_Claim == RefusedBeforeLoad /\ LoopStartsUnlessRefused

\* A step in which an interrupt arrives outside the tick of a countdown
\* ends the process with status 0 and touches neither record nor file; and
\* a process that ended takes no further step.
InterruptOutsideExits ==
    /\ InterruptOutside =>
          /\ pc' \in Ended
          /\ ExitStatus(pc') = 0
          /\ exit_cause' = "KeyboardInterrupt"
          /\ data' = data
          /\ file' = file
          /\ acct'.updates = acct.updates
          /\ acct'.writes = acct.writes
          /\ session_count' = session_count
    /\ pc \notin Ended

\* C12: an interrupt that arrives before the first countdown, at the pause
\* prompt or at a prompt of the main loop ends the process with exit status
\* 0; no interval and no update of the statistics follows.
C12_InterruptOutsideExits == [][InterruptOutsideExits]_vars

\* C12 witness: a second interrupt at the pause prompt of a break ended a
\* process that had recorded a work interval.
C12_Witness ==
    /\ pc = "exited"
    /\ exit_cause = "KeyboardInterrupt"
    /\ exit_in = "countdown"
    /\ result = "none"
    /\ acct.updates = 1
    /\ file = JsonFile(data)

\* The minutes of the countdown that runs, or of the one that returned last.
Duration ==
    CASE pc \in {"work_running", "work_paused", "break_prompt"} -> WORK_MINUTES
      [] OTHER -> b_min

\* C16: while a countdown runs or is paused, total_sec is its start value
\* minutes_to_seconds(duration) less the passes that reached their
\* decrement, and never negative; and countdown has returned "completed"
\* only with total_sec at -1 after exactly minutes_to_seconds(duration) + 1
\* such passes, however often it was paused and resumed.
C16_TicksToCompletion ==
    /\ pc \in Running \cup Paused =>
          /\ total_sec = minutes_to_seconds(Duration, 1) - ticks
          /\ total_sec >= 0
    /\ (pc \in Prompts /\ result = "completed") =>
          /\ total_sec = -1
          /\ ticks = minutes_to_seconds(Duration, 1) + 1

\* C16 witness: the long break after the fourth session ran to completion.
C16_Witness ==
    /\ pc = "next_prompt"
    /\ result = "completed"
    /\ b_min = LONG_BREAK_MINUTES
    /\ ticks = 901
    /\ total_sec = -1

\* C17: the noise plays only while the countdown of a work interval is
\* RUNNING: not at the pause prompt, not after countdown returned, not in a
\* break, not at the prompts between intervals.
C17_AudioOnlyWhileWorkRuns == audio = "playing" => pc = "work_running"

\* C17 witness: a work interval in which the noise played is paused with the
\* noise stopped.
C17_Witness ==
    /\ pc = "work_paused"
    /\ audio = "stopped"
    /\ paused_at = 1400
    /\ ticks = 100

\* C18, as claimed: the streak a progress report shows is the number of work
\* sessions completed so far in the run.
C18_Claim == report # NoReport => report.streak = acct.completed_work

\* C13: calculate_stats returns a new record with the keys of its argument;
\* a work interval adds 1 to total_sessions and the minutes to
\* total_focus_minutes, a break adds the minutes to total_break_minutes;
\* whichever it is, a date other than last_run adds 1 to days_active and
\* becomes last_run, the same date changes neither; every other field is
\* as in the argument, and the argument itself is as it was.
C13_CalculateStats ==
    call.fn = "calculate_stats" =>
        LET d == call.before.data
            out == call.heap[call.ret]
        IN  /\ DOMAIN out = DOMAIN d
            /\ out.total_sessions =
                   d.total_sessions + (IF call.is_work THEN 1 ELSE 0)
            /\ out.total_focus_minutes =
                   d.total_focus_minutes
                   + (IF call.is_work THEN call.minutes ELSE 0)
            /\ out.total_break_minutes =
                   d.total_break_minutes
                   + (IF call.is_work THEN 0 ELSE call.minutes)
            /\ IF d.last_run # call.date_str
               THEN /\ out.days_active = d.days_active + 1
                    /\ out.last_run = call.date_str
               ELSE /\ out.days_active = d.days_active
                    /\ out.last_run = d.last_run
            /\ \A k \in DOMAIN d \ StatsKeys : out[k] = d[k]
            /\ call.ret # "data"
            /\ call.heap.data = d

\* C13 witness: a long break on a new date, for a record with a sixth key.
C13_Witness ==
    /\ call.fn = "calculate_stats"
    /\ call.before.data = ExtraRecord
    /\ ~call.is_work
    /\ call.minutes = LONG_BREAK_MINUTES
    /\ call.date_str = strftime(2)
    /\ call.heap[call.ret].total_break_minutes = 60
    /\ call.heap[call.ret].days_active = 4
    /\ call.heap[call.ret].note = "kept"

\* round(num / den) for num >= 0, as Python rounds: to the nearest integer,
\* a tie to the even one.
round(num, den) ==
    LET q == num \div den
        r == num % den
    IN  CASE 2 * r < den -> q
          [] 2 * r > den -> q + 1
          [] OTHER -> IF q % 2 = 0 THEN q ELSE q + 1

\* C14, as claimed: minutes_to_seconds(m) is round(m * 60) for m >= 0 and 0
\* for m < 0, fractional m included.
C14_Claim ==
    call.fn = "minutes_to_seconds" =>
        call.ret = (IF call.num >= 0 THEN round(call.num * 60, call.den)
                                     ELSE 0)

IsDigit(c) == \E i \in 1..Len(Digits) : Digits[i] = c

DigitValue(c) == (CHOOSE i \in 1..Len(Digits) : Digits[i] = c) - 1

\* C15, as claimed: format_timer(s) is two digits, a colon and two digits
\* for every s, "00:00" for s < 0, the fields being s div 60 and s mod 60.
C15_Claim ==
    call.fn = "format_timer" =>
        LET t == call.ret
            s == Max(0, int(call.num, call.den))
        IN  /\ Len(t) = 5
            /\ IsDigit(t[1]) /\ IsDigit(t[2])
            /\ t[3] = ":"
            /\ IsDigit(t[4]) /\ IsDigit(t[5])
            /\ call.num < 0 => t = <<"0", "0", ":", "0", "0">>
            /\ 10 * DigitValue(t[1]) + DigitValue(t[2]) = s \div 60
            /\ 10 * DigitValue(t[4]) + DigitValue(t[5]) = s % 60

\* The work intervals the processes completed and saved.
WorkSaved == procs.work[1] + procs.work[2]

\* Both processes loaded the file as it was at the start and each has since
\* completed and saved a work interval.
BothSavedWork ==
    /\ \A p \in Procs : procs.state[p] = "running"
    /\ \A p \in Procs : procs.loaded[p] = acct.start
    /\ \A p \in Procs : procs.work[p] >= 1
    /\ file.kind = "json"

\* C19: each process adds its intervals to the record it loaded and writes
\* that record over the file, so the file is the record of the process that
\* wrote last (while that process runs and the file is whole); once two processes that loaded the same file have each
\* completed and saved a work interval, the file counts only the sessions
\* of the last writer, fewer than were completed and saved.
C19_LastWriterWins ==
    /\ \A p \in Procs :
          procs.state[p] = "running" =>
              procs.mem[p].total_sessions =
                  procs.loaded[p].total_sessions + procs.work[p]
    /\ (/\ procs.last \in Procs
        /\ procs.state[procs.last] = "running"
        /\ file.kind = "json") =>
          file.value = procs.mem[procs.last]
    /\ BothSavedWork =>
          /\ file.value.total_sessions =
                 acct.start.total_sessions + procs.work[procs.last]
          /\ file.value.total_sessions <
                 acct.start.total_sessions + WorkSaved

\* C19 witness: two processes loaded the stored record of 7 sessions, each
\* completed and saved one work interval, and the file counts 8 sessions.
C19_Witness ==
    /\ BothSavedWork
    /\ acct.start = StoredRecord
    /\ procs.work[1] = 1
    /\ procs.work[2] = 1
    /\ procs.updates[1] = 1
    /\ procs.updates[2] = 1
    /\ file.value.total_sessions = 8

\* A countdown is on the stack.
InCountdown == pc \in Running \cup Paused

\* The countdown ended in one of its three ways.
Outcome == result \in {"completed", "skipped"} \/ exit_cause = "quit"

\* C20, as claimed: when the user interrupts only finitely often and answers
\* every pause prompt, every countdown reaches COMPLETED, SKIPPED or QUIT.
C20_Claim == <>[][~Interrupt]_vars => [](InCountdown => <>Outcome)

\* Under the same assumption every countdown ends, one way or another.
CountdownEnds == <>[][~Interrupt]_vars => [](InCountdown => <>(~InCountdown))

====
